---- MODULE Spec2Model ----
(***************************************************************************)
(* pyegui (src/src/lib.rs): the process-wide UI stack, the frame driver,   *)
(* the scope functions and the run guard, as a state machine.              *)
(*                                                                         *)
(* Threads are host (Python) threads.  A #[pyfunction] runs with the GIL   *)
(* held; run_native keeps it for the whole native loop, and it is only     *)
(* handed to other threads while Python code of a callback is running.     *)
(* A Rust panic inside a #[pyfunction] reaches its Python caller as a      *)
(* PanicException; when such an exception comes back to Rust through       *)
(* call0/call1, PyO3 resumes the unwinding instead of returning Err.       *)
(***************************************************************************)
EXTENDS Integers, Sequences, FiniteSets, TLC

\* ------------------------------------------------------------------ bounds

MaxSessions == 2
MaxHandles == 3
MaxNest == 2
MaxAlts == 2
MaxValue == 2

Threads == {"T1", "T2"}
Callbacks == {"f1", "f2"}

\* ---------------------------------------------------------------- messages

APP_MUTEX_ERR == "run_simple_native has been called on a separate thread"
UPDATE_FUNC_PTR_NULL_ERR == "UPDATE_FUNC ptr is null. This is likely to be a problem with pyegui"
UI_PTR_NULL_ERR == "UI ptr is null. This is likely to be a problem with pyegui"
UI_STACK_ERR == "UI stack is empty. This is likely to be a problem with pyegui"
UI_CALL_OUTSIDE_UPDATE_FUNC ==
    "UI functions should be called only within update_fun and on the same thread. update_fun should only be called by run_simple_native"
CANNOT_CREATE_WINDOW == "Cannot create a window: {}"
UNWRAP_NONE == "called Option::unwrap() on a None value"
UNKNOWN == "Unknown"

\* ------------------------------------------------------------ the functions

WidgetFns == {"heading", "label", "button_clicked", "slider_float"}
ScopeFns == {"horizontal", "horizontal_centered", "horizontal_top",
             "horizontal_wrapped", "collapsing", "indent", "group", "scope",
             "add_enabled"}

\* The inputs of combo_box: the value of the Int cell, the alternatives and
\* the labels (distinct, so that a label tells its position).
ComboValues == -1..MaxValue
AllNames == <<"n1", "n2", "n3", "n4">>
SeqsUpTo(S, n) == UNION {[1..k -> S] : k \in 0..n}
ComboAlts == SeqsUpTo(ComboValues, MaxAlts)
ComboNames == {SubSeq(AllNames, 1, k) : k \in 0..MaxAlts}
\* The lists of the function's own documentation.
DocCell == [value |-> 0, alts |-> <<0, 1>>, names |-> <<"n1", "n2">>]

\* ------------------------------------------------------------------- state

VARIABLES
    UI,           \* static UI: 0 is the null pointer, g > 0 the Vec of the g-th run_native
    UPDATE_FUNC,  \* static UPDATE_FUNC: "null" or the function whose temporary it points at
    APP_MUTEX,    \* static APP_MUTEX: [locked, poisoned]
    ui_stack,     \* the Vec local to the running run_native: region handles, last is the top
    calls,        \* per thread, the Rust activations on its call stack, innermost last
    pending,      \* per thread: a PanicException is propagating in its Python code
    nextHandle,   \* the next fresh region handle
    crashed,      \* the process faulted on an invalid pointer
    started,      \* history: some run_native call has acquired the guard
    cell,         \* the host's Int cell and the two lists it passes to combo_box
    ev            \* the last call or return observed at the host boundary

vars == <<UI, UPDATE_FUNC, APP_MUTEX, ui_stack, calls, pending, nextHandle,
          crashed, started, cell, ev>>

NoText == ""

Ev(t, op, kind, msg, h, body) ==
    [t |-> t, op |-> op, kind |-> kind, msg |-> msg, h |-> h, body |-> body,
     open |-> TRUE, val |-> 0, alts |-> <<>>, names |-> <<>>, text |-> NoText]

\* An activation record: the handle its closure was given, the stack depth when
\* the call was made, the Vec its ui_stack reference designates, and the parent
\* region it was opened in.
Act(kind, h, d, g, p) ==
    [kind |-> kind, handle |-> h, depth0 |-> d, vec |-> g, parent |-> p]

Front(s) == SubSeq(s, 1, Len(s) - 1)
Last(s) == s[Len(s)]
Range(s) == {s[i] : i \in 1..Len(s)}

\* ------------------------------------------------------------ derived state

Top(t) == Last(calls[t])
InNativeLoop(t) == calls[t] # <<>> /\ Top(t).kind = "run_native"
InBody(t) == calls[t] # <<>> /\ Top(t).kind \in {"update", "scope"}
SessionThreads == {t \in Threads : \E i \in 1..Len(calls[t]) : calls[t][i].kind = "run_native"}
SessionActive == SessionThreads # {}
\* The Vec that pointer g designates is alive: its run_native has not returned.
VecLive(g) == g # 0 /\ g = UI /\ SessionActive
\* A region handle is valid while the closure that was given it is on some stack.
HandleLive(h) == \E t \in Threads : \E i \in 1..Len(calls[t]) : calls[t][i].handle = h
NestOf(t) == Cardinality({i \in 1..Len(calls[t]) : calls[t][i].kind = "scope"})

\* The GIL: a thread sitting in the native loop holds it; Python code yields it.
GilFree(t) == \A u \in Threads \ {t} : ~InNativeLoop(u)
CanCall(t) == ~crashed /\ GilFree(t) /\ ~InNativeLoop(t) /\ ~pending[t]

InitProg ==
    /\ UI = 0
    /\ UPDATE_FUNC = "null"
    /\ APP_MUTEX = [locked |-> FALSE, poisoned |-> FALSE]
    /\ ui_stack = <<>>
    /\ calls = [t \in Threads |-> <<>>]
    /\ pending = [t \in Threads |-> FALSE]
    /\ nextHandle = 1
    /\ crashed = FALSE
    /\ started = FALSE
    /\ ev = Ev("T1", "none", "none", NoText, 0, "none")

Init == InitProg /\ cell = DocCell

\* The host built any Int cell and any two lists before starting.
InitCombo ==
    /\ InitProg
    /\ cell \in [value : ComboValues, alts : ComboAlts, names : ComboNames]

\* ---------------------------------------------------------------- helpers

\* A lock that does not exclude a second holder.
try_lock_shared(m) == IF m.poisoned THEN "Err" ELSE "Ok"

\* Mutex::try_lock: Err when held (WouldBlock) or poisoned, never waits.
try_lock(m) == IF m.locked \/ m.poisoned THEN "Err" ELSE "Ok"

\* The static pointer used without its null check.
ui_stack_unchecked(ui) == [ok |-> TRUE, msg |-> NoText]

\* ui_stack(): the null check of the static pointer.
ui_stack_of(ui) ==
    IF ui = 0 THEN [ok |-> FALSE, msg |-> UI_CALL_OUTSIDE_UPDATE_FUNC]
              ELSE [ok |-> TRUE, msg |-> NoText]

\* last_ui(): the top of the Vec, or UI_STACK_ERR; a null element gives UI_PTR_NULL_ERR.
last_ui(stack) ==
    IF stack = <<>> THEN [ok |-> FALSE, msg |-> UI_STACK_ERR, h |-> 0]
    ELSE IF Last(stack) = 0 THEN [ok |-> FALSE, msg |-> UI_PTR_NULL_ERR, h |-> 0]
    ELSE [ok |-> TRUE, msg |-> NoText, h |-> Last(stack)]

\* current_ui(&UI): the possible results.  Reading through a pointer to a Vec
\* whose run_native has returned, or through a handle whose closure has
\* returned, is undefined: it may read stale bytes or fault.
current_ui ==
    IF ~ui_stack_of(UI).ok
        THEN {[kind |-> "Err", msg |-> ui_stack_of(UI).msg, h |-> 0]}
    ELSE IF ~VecLive(UI)
        THEN {[kind |-> "Err", msg |-> UI_STACK_ERR, h |-> 0],
              [kind |-> "Fault", msg |-> NoText, h |-> 0]}
    ELSE IF ~last_ui(ui_stack).ok
        THEN {[kind |-> "Err", msg |-> last_ui(ui_stack).msg, h |-> 0]}
    ELSE IF HandleLive(last_ui(ui_stack).h)
        THEN {[kind |-> "Ok", msg |-> NoText, h |-> last_ui(ui_stack).h]}
    ELSE {[kind |-> "Ok", msg |-> NoText, h |-> last_ui(ui_stack).h],
          [kind |-> "Fault", msg |-> NoText, h |-> 0]}

\* Python::with_gil(|py| UPDATE_FUNC.as_ref()...): UPDATE_FUNC points at the
\* temporary `update_fun.unbind()`, dropped at the end of the statement that
\* took its address, so every read is of a dead stack slot.
deref_UPDATE_FUNC == IF UPDATE_FUNC = "null" THEN {"null"} ELSE {"intact", "garbage"}

\* A pop that also removes the element under the top.
pop_results_two(g) ==
    IF ui_stack = <<>>
    THEN {[kind |-> "None", h |-> 0, rest |-> ui_stack]}
    ELSE {[kind |-> "Some", h |-> Last(ui_stack), rest |-> Front(Front(ui_stack))]}

\* Vec::pop through the closure's `ui_stack` reference, which designates Vec g.
\* When that Vec is gone the read is undefined: stale bytes (None), a fault, or
\* the Vec of a newer run_native that took the same stack slot.
pop_results(g) ==
    LET live == IF ui_stack = <<>>
                THEN [kind |-> "None", h |-> 0, rest |-> ui_stack]
                ELSE [kind |-> "Some", h |-> Last(ui_stack), rest |-> Front(ui_stack)]
    IN  IF VecLive(g) THEN {live}
        ELSE {[kind |-> "None", h |-> 0, rest |-> ui_stack],
              [kind |-> "Fault", h |-> 0, rest |-> ui_stack]}
             \cup (IF SessionActive THEN {live} ELSE {})

Crash(t, op) ==
    /\ crashed' = TRUE
    /\ ev' = Ev(t, op, "Fault", NoText, 0, "none")
    /\ UNCHANGED <<UI, UPDATE_FUNC, APP_MUTEX, ui_stack, calls, pending, nextHandle, started, cell>>

\* A panic leaves run_native: the activations above `rest` unwind, the guard
\* `_lock` is dropped while panicking (the mutex is poisoned), the Vec is
\* dropped, and the caller of run_native receives a PanicException.
PanicEnd(t, rest, msg) ==
    /\ calls' = [calls EXCEPT ![t] = rest]
    /\ APP_MUTEX' = [locked |-> FALSE, poisoned |-> TRUE]
    /\ ui_stack' = <<>>
    /\ pending' = [pending EXCEPT ![t] = rest # <<>>]
    /\ ev' = Ev(t, "run_native_exit", "Panic", msg, 0, "panic")
    /\ UNCHANGED <<UI, UPDATE_FUNC, nextHandle, crashed, started, cell>>

\* ----------------------------------------------------------------- actions

\* run_native dropping the guard as soon as try_lock has returned it, instead of
\* binding it for the length of the call.
run_native_unguarded(t, f, w) ==
    /\ CanCall(t)
    /\ IF try_lock(APP_MUTEX) = "Err"
       THEN /\ ev' = Ev(t, "run_native", "Panic", APP_MUTEX_ERR, 0, "none")
            /\ pending' = [pending EXCEPT ![t] = calls[t] # <<>>]
            /\ UNCHANGED <<UI, UPDATE_FUNC, APP_MUTEX, ui_stack, calls, nextHandle,
                           crashed, started, cell>>
       ELSE /\ UI < MaxSessions
            /\ UI' = UI + 1
            /\ UPDATE_FUNC' = f
            /\ ui_stack' = <<>>
            /\ started' = TRUE
            /\ APP_MUTEX' = [locked |-> FALSE, poisoned |-> FALSE]
            /\ IF w = "ok"
               THEN /\ calls' = [calls EXCEPT ![t] =
                                    Append(@, Act("run_native", 0, 0, UI + 1, 0))]
                    /\ ev' = Ev(t, "run_native", "Running", NoText, 0, "none")
               ELSE /\ calls' = calls
                    /\ ev' = Ev(t, "run_native", "Err", CANNOT_CREATE_WINDOW, 0, "none")
            /\ UNCHANGED <<pending, nextHandle, crashed, cell>>

\* run_native storing its Vec and its callback in the statics before it tries
\* the lock.
run_native_init_first(t, f, w) ==
    /\ CanCall(t)
    /\ UI < MaxSessions
    /\ UI' = UI + 1
    /\ UPDATE_FUNC' = f
    /\ started' = TRUE
    /\ IF try_lock(APP_MUTEX) = "Err"
       THEN /\ ev' = Ev(t, "run_native", "Panic", APP_MUTEX_ERR, 0, "none")
            /\ pending' = [pending EXCEPT ![t] = calls[t] # <<>>]
            /\ UNCHANGED <<APP_MUTEX, ui_stack, calls, nextHandle, crashed, cell>>
       ELSE /\ ui_stack' = <<>>
            /\ IF w = "ok"
               THEN /\ APP_MUTEX' = [locked |-> TRUE, poisoned |-> FALSE]
                    /\ calls' = [calls EXCEPT ![t] =
                                    Append(@, Act("run_native", 0, 0, UI + 1, 0))]
                    /\ ev' = Ev(t, "run_native", "Running", NoText, 0, "none")
               ELSE /\ APP_MUTEX' = [locked |-> FALSE, poisoned |-> FALSE]
                    /\ calls' = calls
                    /\ ev' = Ev(t, "run_native", "Err", CANNOT_CREATE_WINDOW, 0, "none")
            /\ UNCHANGED <<pending, nextHandle, crashed, cell>>

\* run_native(app_name, update_fun), called by thread t; w is what the toolkit
\* answers to the window creation.
run_native(t, f, w) ==
    /\ CanCall(t)
    /\ IF try_lock(APP_MUTEX) = "Err"
       THEN /\ ev' = Ev(t, "run_native", "Panic", APP_MUTEX_ERR, 0, "none")
            /\ pending' = [pending EXCEPT ![t] = calls[t] # <<>>]
            /\ UNCHANGED <<UI, UPDATE_FUNC, APP_MUTEX, ui_stack, calls, nextHandle,
                           crashed, started, cell>>
       ELSE /\ UI < MaxSessions
            /\ UI' = UI + 1
            /\ UPDATE_FUNC' = f
            /\ ui_stack' = <<>>
            /\ started' = TRUE
            /\ IF w = "ok"
               THEN /\ APP_MUTEX' = [locked |-> TRUE, poisoned |-> FALSE]
                    /\ calls' = [calls EXCEPT ![t] =
                                    Append(@, Act("run_native", 0, 0, UI + 1, 0))]
                    /\ ev' = Ev(t, "run_native", "Running", NoText, 0, "none")
               ELSE /\ APP_MUTEX' = [locked |-> FALSE, poisoned |-> FALSE]
                    /\ calls' = calls
                    /\ ev' = Ev(t, "run_native", "Err", CANNOT_CREATE_WINDOW, 0, "none")
            /\ UNCHANGED <<pending, nextHandle, crashed, cell>>

\* run_native returning without dropping its guard.
close_window_leak(t) ==
    /\ ~crashed
    /\ InNativeLoop(t)
    /\ calls' = [calls EXCEPT ![t] = Front(@)]
    /\ ui_stack' = <<>>
    /\ ev' = Ev(t, "run_native_exit", "Ok", NoText, 0, "none")
    /\ UNCHANGED <<UI, UPDATE_FUNC, APP_MUTEX, pending, nextHandle, crashed, started, cell>>

\* The native loop returns (the window was closed): run_native returns Ok.
close_window(t) ==
    /\ ~crashed
    /\ InNativeLoop(t)
    /\ calls' = [calls EXCEPT ![t] = Front(@)]
    /\ APP_MUTEX' = [APP_MUTEX EXCEPT !.locked = FALSE]
    /\ ui_stack' = <<>>
    /\ ev' = Ev(t, "run_native_exit", "Ok", NoText, 0, "none")
    /\ UNCHANGED <<UI, UPDATE_FUNC, pending, nextHandle, crashed, started, cell>>

\* PyeguiApp::update up to the call of the frame callback.
update_enter(t) ==
    /\ ~crashed
    /\ InNativeLoop(t)
    /\ nextHandle <= MaxHandles
    /\ \E r \in deref_UPDATE_FUNC :
         IF r = "intact"
         THEN /\ ui_stack' = Append(ui_stack, nextHandle)
              /\ nextHandle' = nextHandle + 1
              /\ calls' = [calls EXCEPT ![t] =
                              Append(@, Act("update", nextHandle, Len(ui_stack), UI, 0))]
              /\ ev' = Ev(t, "update", "Call", UPDATE_FUNC, nextHandle, "none")
              /\ UNCHANGED <<UI, UPDATE_FUNC, APP_MUTEX, pending, crashed, started, cell>>
         ELSE IF r = "null"
         THEN PanicEnd(t, Front(calls[t]), UPDATE_FUNC_PTR_NULL_ERR)
         ELSE Crash(t, "update")

\* The frame callback returned (res = "ok") or raised (res = "err"): the rest
\* of PyeguiApp::update.
update_exit(t, res) ==
    /\ ~crashed
    /\ GilFree(t)
    /\ InBody(t) /\ Top(t).kind = "update"
    /\ ~pending[t]
    /\ IF ui_stack = <<>>
       THEN PanicEnd(t, SubSeq(calls[t], 1, Len(calls[t]) - 2), UI_STACK_ERR)
       ELSE /\ ui_stack' = Front(ui_stack)
            /\ calls' = [calls EXCEPT ![t] = Front(@)]
            /\ ev' = Ev(t, "update_return", "Ok", NoText, Last(ui_stack), res)
            /\ UNCHANGED <<UI, UPDATE_FUNC, APP_MUTEX, pending, nextHandle, crashed,
                           started, cell>>

\* A widget function: current_ui(&UI)?, draw, Ok.
widget(t, fn) ==
    /\ CanCall(t)
    /\ \E r \in current_ui :
         IF r.kind = "Fault" THEN Crash(t, fn)
         ELSE /\ ev' = Ev(t, fn, r.kind, r.msg, r.h, "none")
              /\ UNCHANGED <<UI, UPDATE_FUNC, APP_MUTEX, ui_stack, calls, pending,
                             nextHandle, crashed, started, cell>>

\* combo_box: the text shown as selected is names.get(current_value as usize,
\* or 0 when the conversion fails), or "Unknown" when names has no such index.
selected_text(value, names) ==
    LET idx == IF value >= 0 THEN value ELSE 0
    IN  IF idx + 1 <= Len(names) THEN names[idx + 1] ELSE UNKNOWN

\* combo_box(current_value, alternatives, names, label); click is the entry of
\* the popup the user clicks (0: none), which selectable_value stores.
combo_box(t, alternatives, names, click) ==
    /\ CanCall(t)
    /\ click \in 0..Len(alternatives)
    /\ \E r \in current_ui :
         IF r.kind = "Fault" THEN Crash(t, "combo_box")
         ELSE /\ ev' = [Ev(t, "combo_box", r.kind, r.msg, r.h, "none") EXCEPT
                          !.val = cell.value, !.alts = alternatives, !.names = names,
                          !.text = IF r.kind = "Ok"
                                   THEN selected_text(cell.value, names) ELSE NoText]
              /\ cell' = IF r.kind = "Ok" /\ click > 0
                         THEN [cell EXCEPT !.value = alternatives[click]] ELSE cell
              /\ UNCHANGED <<UI, UPDATE_FUNC, APP_MUTEX, ui_stack, calls, pending,
                             nextHandle, crashed, started>>

\* A scope function up to the call of its body.  `open` is whether the toolkit
\* runs the closure: always, except for a collapsed CollapsingHeader, whose
\* body_returned is then None and .unwrap() panics.
scope_enter(t, fn, open) ==
    /\ CanCall(t)
    /\ \E r \in current_ui :
         IF r.kind = "Fault" THEN Crash(t, fn)
         ELSE IF r.kind = "Err"
         THEN /\ ev' = Ev(t, fn, "Err", r.msg, 0, "none")
              /\ UNCHANGED <<UI, UPDATE_FUNC, APP_MUTEX, ui_stack, calls, pending,
                             nextHandle, crashed, started, cell>>
         ELSE IF fn = "collapsing" /\ ~open
         THEN /\ ev' = [Ev(t, fn, "Panic", UNWRAP_NONE, 0, "none") EXCEPT !.open = FALSE]
              /\ pending' = [pending EXCEPT ![t] = calls[t] # <<>>]
              /\ UNCHANGED <<UI, UPDATE_FUNC, APP_MUTEX, ui_stack, calls, nextHandle,
                             crashed, started, cell>>
         ELSE /\ nextHandle <= MaxHandles
              /\ NestOf(t) < MaxNest
              /\ ui_stack' = Append(ui_stack, nextHandle)
              /\ nextHandle' = nextHandle + 1
              /\ calls' = [calls EXCEPT ![t] =
                              Append(@, Act("scope", nextHandle, Len(ui_stack), UI, r.h))]
              /\ ev' = Ev(t, fn, "Call", NoText, nextHandle, "none")
              /\ UNCHANGED <<UI, UPDATE_FUNC, APP_MUTEX, pending, crashed, started, cell>>

\* After the closure the toolkit lays the child out in the parent region, through
\* the &mut Ui that current_ui returned: undefined when that region is gone.
parent_faults(h) == IF HandleLive(h) THEN {FALSE} ELSE {FALSE, TRUE}

\* The body of the innermost scope call of t returned (res = "ok") or raised
\* (res = "err", printed and dropped): ui_stack.pop(), then the match on it.
scope_exit(t, res) ==
    /\ ~crashed
    /\ GilFree(t)
    /\ InBody(t) /\ Top(t).kind = "scope"
    /\ ~pending[t]
    /\ \E p \in pop_results(Top(t).vec), f \in parent_faults(Top(t).parent) :
         IF p.kind = "Fault" \/ f
         THEN Crash(t, "scope_return")
         ELSE /\ ui_stack' = p.rest
              /\ calls' = [calls EXCEPT ![t] = Front(@)]
              /\ ev' = IF p.kind = "Some"
                       THEN Ev(t, "scope_return", "Ok", NoText, p.h, res)
                       ELSE Ev(t, "scope_return", "Err", UI_STACK_ERR, 0, res)
              /\ UNCHANGED <<UI, UPDATE_FUNC, APP_MUTEX, pending, nextHandle, crashed,
                             started, cell>>

\* call0/call1 fetched a PanicException: PyO3 resumes the panic.  The closure
\* is left without its pop; a scope function hands a PanicException to its
\* own caller, the frame driver unwinds out of run_native.
resume_unwind(t) ==
    /\ ~crashed
    /\ GilFree(t)
    /\ pending[t]
    /\ InBody(t)
    /\ IF Top(t).kind = "scope"
       THEN /\ calls' = [calls EXCEPT ![t] = Front(@)]
            /\ pending' = [pending EXCEPT ![t] = Front(calls[t]) # <<>>]
            /\ ev' = Ev(t, "scope_return", "Panic", NoText, 0, "panic")
            /\ UNCHANGED <<UI, UPDATE_FUNC, APP_MUTEX, ui_stack, nextHandle, crashed,
                           started, cell>>
       ELSE PanicEnd(t, SubSeq(calls[t], 1, Len(calls[t]) - 2), NoText)

\* The Python code in which a PanicException propagates catches it.
catch_panic(t) ==
    /\ ~crashed
    /\ GilFree(t)
    /\ pending[t]
    /\ pending' = [pending EXCEPT ![t] = FALSE]
    /\ UNCHANGED <<UI, UPDATE_FUNC, APP_MUTEX, ui_stack, calls, nextHandle, crashed,
                   started, cell, ev>>

Next ==
    \/ \E t \in Threads, fn \in ScopeFns, open \in BOOLEAN : scope_enter(t, fn, open)
    \/ \E t \in Threads, f \in Callbacks, w \in {"ok", "fail"} : run_native(t, f, w)
    \/ \E t \in Threads : close_window(t)
    \/ \E t \in Threads : update_enter(t)
    \/ \E t \in Threads, res \in {"ok", "err"} : update_exit(t, res)
    \/ \E t \in Threads, fn \in WidgetFns : widget(t, fn)
    \/ \E t \in Threads, res \in {"ok", "err"} : scope_exit(t, res)
    \/ \E t \in Threads : resume_unwind(t)
    \/ \E t \in Threads : catch_panic(t)
    \/ \E t \in Threads, c \in 0..MaxAlts : combo_box(t, cell.alts, cell.names, c)

Spec == Init /\ [][Next]_vars

\* combo_box over all its inputs, in the frames of one session thread.
NextCombo ==
    \/ run_native("T1", "f1", "ok")
    \/ close_window("T1")
    \/ update_enter("T1")
    \/ \E res \in {"ok", "err"} : update_exit("T1", res)
    \/ \E c \in 0..MaxAlts : combo_box("T1", cell.alts, cell.names, c)

SpecCombo == InitCombo /\ [][NextCombo]_vars

\* The runs in which every call comes from one thread, the session thread.
NextOne ==
    \/ \E fn \in ScopeFns, open \in BOOLEAN : scope_enter("T1", fn, open)
    \/ \E f \in Callbacks, w \in {"ok", "fail"} : run_native("T1", f, w)
    \/ close_window("T1")
    \/ update_enter("T1")
    \/ \E res \in {"ok", "err"} : update_exit("T1", res)
    \/ \E fn \in WidgetFns : widget("T1", fn)
    \/ \E res \in {"ok", "err"} : scope_exit("T1", res)
    \/ resume_unwind("T1")
    \/ catch_panic("T1")
    \/ \E c \in 0..MaxAlts : combo_box("T1", cell.alts, cell.names, c)

SpecOne == Init /\ [][NextOne]_vars

\* Every host callback returns: the body of an open frame or scope call ends
\* sooner or later, and a PanicException in flight either is caught by the
\* Python code it crosses or reaches the Rust caller.
CallbacksReturn ==
    /\ SF_vars(\E res \in {"ok", "err"} : scope_exit("T1", res))
    /\ SF_vars(\E res \in {"ok", "err"} : update_exit("T1", res))
    /\ WF_vars(resume_unwind("T1") \/ catch_panic("T1"))

SpecLive == Init /\ [][NextOne]_vars /\ CallbacksReturn

\* ------------------------------------------------------------------ claims

InFrame(t) == t \in SessionThreads /\ InBody(t)
OthersIdle(t) == \A u \in Threads \ {t} : calls[u] = <<>>
RunNativeActs ==
    UNION {{<<t, i>> : i \in {j \in 1..Len(calls[t]) : calls[t][j].kind = "run_native"}} :
           t \in Threads}
WidgetOps == WidgetFns \cup {"combo_box"}
Injective(s) == \A i, j \in 1..Len(s) : s[i] = s[j] => i = j

\* C1: when a scope call of the session thread returns, by any way out of its
\* body, the depth of the scope stack is the depth just before the call.
C1_NetZeroDepth ==
    [][\A t \in Threads :
         (/\ InFrame(t) /\ Top(t).kind = "scope" /\ OthersIdle(t)
          /\ calls'[t] = Front(calls[t]))
         => Len(ui_stack') = Top(t).depth0]_vars

\* C2: at most one run_native call holds the guard and runs a session, and a
\* run_native call made while another thread runs a session ends in the same
\* step with the APP_MUTEX_ERR outcome, without waiting and without touching
\* the session.
C2_OneRunnerOtherFailsAtOnce ==
    /\ [](Cardinality(RunNativeActs) <= 1 /\ (SessionActive => APP_MUTEX.locked))
    /\ [][\A t \in Threads :
            (/\ ev'.op = "run_native" /\ ev'.t = t /\ ev' # ev
             /\ SessionThreads \ {t} # {})
            => /\ ev'.kind = "Panic" /\ ev'.msg = APP_MUTEX_ERR
               /\ UNCHANGED <<UI, UPDATE_FUNC, APP_MUTEX, ui_stack, calls, crashed>>]_vars

C2_Witness ==
    /\ ev.op = "run_native" /\ ev.kind = "Panic" /\ ev.msg = APP_MUTEX_ERR
    /\ SessionThreads \ {ev.t} # {}
    /\ APP_MUTEX.locked

\* C3: before any run_native call has acquired the guard, a widget function
\* raises UI_CALL_OUTSIDE_UPDATE_FUNC and changes nothing.
C3_BeforeFirstSession ==
    [][(ev'.op \in WidgetOps /\ ev' # ev /\ ~started)
       => /\ ev'.kind = "Err" /\ ev'.msg = UI_CALL_OUTSIDE_UPDATE_FUNC
          /\ UNCHANGED <<UI, UPDATE_FUNC, APP_MUTEX, ui_stack, calls, pending,
                         nextHandle, crashed, started, cell>>]_vars

C3_Witness ==
    /\ ev.op \in WidgetFns /\ ev.kind = "Err" /\ ev.msg = UI_CALL_OUTSIDE_UPDATE_FUNC
    /\ ~started

\* C4: a widget function called after the window of a session was closed and
\* run_native returned raises UI_CALL_OUTSIDE_UPDATE_FUNC.
C4_AfterSessionEnded ==
    [][(/\ ev'.op \in WidgetOps /\ ev' # ev
        /\ ev.op = "run_native_exit" /\ ev.kind = "Ok" /\ ~SessionActive)
       => ev'.kind = "Err" /\ ev'.msg = UI_CALL_OUTSIDE_UPDATE_FUNC]_vars

\* C5: collapsing called in a frame while the section is collapsed neither
\* raises nor panics, runs no body and leaves the scope stack as it was.
C5_CollapsedIsBenign ==
    [][\A t \in Threads :
         (/\ InFrame(t) /\ OthersIdle(t)
          /\ ev'.op = "collapsing" /\ ev'.t = t /\ ~ev'.open /\ ev' # ev)
         => /\ ev'.kind \notin {"Panic", "Err", "Fault"}
            /\ ui_stack' = ui_stack /\ calls' = calls /\ ~pending'[t]]_vars

\* C6: when the frame callback ends with an error, the frame still completes:
\* the root is popped, the scope stack is empty, the session keeps running
\* and its thread is back in the native loop, ready for the next tick.
C6_FrameSurvivesCallbackError ==
    [][\A t \in Threads :
         (/\ InFrame(t) /\ Top(t).kind = "update" /\ OthersIdle(t)
          /\ calls'[t] # calls[t] /\ ev'.body \in {"err", "panic"})
         => /\ ui_stack' = <<>>
            /\ calls'[t] = Front(calls[t])
            /\ APP_MUTEX'.locked /\ ~APP_MUTEX'.poisoned
            /\ ~crashed']_vars

\* C7: when the body of a scope call ends with an error, the scope call pops
\* its region and returns success, and no exception reaches its caller.
C7_BodyErrorSwallowed ==
    [][\A t \in Threads :
         (/\ InFrame(t) /\ Top(t).kind = "scope" /\ OthersIdle(t)
          /\ calls'[t] = Front(calls[t]) /\ ev'.body \in {"err", "panic"})
         => /\ ev'.kind = "Ok"
            /\ ~pending'[t]
            /\ ui_stack' = Front(ui_stack)]_vars

\* C8: a current value that is not among the alternatives is shown as "Unknown".
C8_AbsentValueShowsUnknown ==
    (/\ ev.op = "combo_box" /\ ev.kind = "Ok"
     /\ Len(ev.names) = Len(ev.alts) /\ ev.val \notin Range(ev.alts))
    => ev.text = UNKNOWN

\* C9: with parallel lists, a current value equal to alternatives[i] is shown
\* as names[i].
C9_ValueShowsItsName ==
    (/\ ev.op = "combo_box" /\ ev.kind = "Ok"
     /\ Len(ev.names) = Len(ev.alts) /\ Injective(ev.alts))
    => \A i \in 1..Len(ev.alts) : ev.alts[i] = ev.val => ev.text = ev.names[i]

\* C10: the guard is held while a session runs; when run_native ends because
\* the window was closed or could not be created, the guard is free and not
\* poisoned; and a run_native call made when no session runs and the guard is
\* not poisoned acquires it.
C10_GuardHeldThenReleased ==
    /\ [](SessionActive <=> APP_MUTEX.locked)
    /\ [][(\/ ev'.op = "run_native_exit" /\ ev'.kind = "Ok" /\ ev' # ev
           \/ ev'.op = "run_native" /\ ev'.kind = "Err" /\ ev' # ev)
          => APP_MUTEX' = [locked |-> FALSE, poisoned |-> FALSE]]_vars
    /\ [][(ev'.op = "run_native" /\ ev' # ev /\ ~SessionActive /\ ~APP_MUTEX.poisoned)
          => /\ ev'.kind \in {"Running", "Err"}
             /\ ev'.kind = "Running" => APP_MUTEX'.locked /\ SessionActive']_vars

C10_Witness ==
    /\ UI = 2 /\ SessionActive /\ APP_MUTEX.locked
    /\ ev.op = "run_native" /\ ev.kind = "Running"

\* C11: while a session is active, a widget function called by a thread that
\* did not start it ends with a reported error and draws in no region.
C11_OtherThreadWidgetFails ==
    [][\A t \in Threads :
         (/\ ev'.op \in WidgetOps /\ ev'.t = t /\ ev' # ev
          /\ SessionActive /\ t \notin SessionThreads)
         => ev'.kind = "Err" /\ ev'.h = 0]_vars

\* C12: a run_native call made while a session is active, by any thread,
\* panics with APP_MUTEX_ERR and writes nothing: UI, UPDATE_FUNC, the guard, the
\* stack and the call stacks are as before.  As long as the session lasts UI and
\* UPDATE_FUNC keep the values its run_native stored, and the callback a frame
\* invokes is the one in UPDATE_FUNC.
C12_FailedStartChangesNothing ==
    /\ [][(ev'.op = "run_native" /\ ev' # ev /\ SessionActive)
          => /\ ev'.kind = "Panic" /\ ev'.msg = APP_MUTEX_ERR
             /\ UNCHANGED <<UI, UPDATE_FUNC, APP_MUTEX, ui_stack, calls, nextHandle,
                            crashed, cell>>]_vars
    /\ [][(SessionActive /\ SessionActive') => UNCHANGED <<UI, UPDATE_FUNC>>]_vars
    /\ [][(ev'.op = "update" /\ ev'.kind = "Call" /\ ev' # ev)
          => ev'.msg = UPDATE_FUNC /\ UPDATE_FUNC' = UPDATE_FUNC]_vars

\* A failed start made inside a frame of the running session, whose exception
\* the callback caught: the session is still the owner of both statics.
C12_Witness ==
    /\ ev.op = "run_native" /\ ev.kind = "Panic" /\ ev.msg = APP_MUTEX_ERR
    /\ ev.t \in SessionThreads /\ InFrame(ev.t) /\ ~pending[ev.t]
    /\ VecLive(UI) /\ UPDATE_FUNC \in Callbacks /\ ui_stack # <<>>

NoFrame == \A t \in Threads : \A i \in 1..Len(calls[t]) : calls[t][i].kind # "update"

\* C13: a scope function called while no frame is in progress raises
\* UI_CALL_OUTSIDE_UPDATE_FUNC, pushes nothing and does not call its body.
C13_ScopeOutsideFrame ==
    [][(ev'.op \in ScopeFns /\ ev' # ev /\ NoFrame)
       => /\ ev'.kind = "Err" /\ ev'.msg = UI_CALL_OUTSIDE_UPDATE_FUNC
          /\ UNCHANGED <<ui_stack, calls, nextHandle>>]_vars

OpenCalls(t) == Cardinality({i \in 1..Len(calls[t]) : calls[t][i].kind \in {"update", "scope"}})
Quiet == ~crashed /\ \A t \in Threads : ~pending[t]

\* C14: whenever no panic is unwinding, the depth of the scope stack is the
\* number of open frame and scope calls of the session thread, and the stack is
\* empty when no frame is in progress.
C14_DepthIsOpenCalls ==
    Quiet => /\ Len(ui_stack) = OpenCalls("T1")
             /\ NoFrame => ui_stack = <<>>

\* C15: every handle on the scope stack belongs to a frame or scope call that
\* has not returned, and the handle a scope call pops is the one it pushed.
C15_StrictNesting ==
    /\ [](\A h \in Range(ui_stack) : HandleLive(h))
    /\ [][\A t \in Threads :
            (/\ InBody(t) /\ Top(t).kind = "scope" /\ calls'[t] = Front(calls[t])
             /\ ev'.op = "scope_return" /\ ev'.kind = "Ok")
            => ev'.h = Top(t).handle]_vars

\* C16: a scope call that opens its region pushes the new handle in the step
\* in which its body is called, on top of the stack as it was; its body is
\* running exactly while its activation exists; and the step in which the body
\* is over pops the stack and returns, so that no scope call returns without
\* its pop.
C16_OpenPushBodyPopReturn ==
    [][\A t \in Threads :
         /\ (Len(calls'[t]) > Len(calls[t]) /\ Last(calls'[t]).kind = "scope")
            => /\ calls'[t] = Append(calls[t], Last(calls'[t]))
               /\ ui_stack' = Append(ui_stack, Last(calls'[t]).handle)
               /\ Last(calls'[t]).handle \notin Range(ui_stack)
               /\ ev'.kind = "Call"
         /\ (InBody(t) /\ Top(t).kind = "scope" /\ Len(calls'[t]) < Len(calls[t]))
            => /\ calls'[t] = Front(calls[t])
               /\ ui_stack # <<>> /\ ui_stack' = Front(ui_stack)
               /\ ev'.op = "scope_return" /\ ev'.kind = "Ok"]_vars

\* C17: in a frame, the region a widget function draws in, and the parent of
\* the region a scope function opens, is the top of the scope stack, and that
\* top is the region of the innermost frame or scope call still open.
C17_TargetIsInnermostOpen ==
    [][\A t \in Threads :
         (InFrame(t) /\ ev'.t = t /\ ev' # ev)
         => /\ (ev'.op \in WidgetOps /\ ev'.kind = "Ok")
               => ev'.h = Last(ui_stack) /\ ev'.h = Top(t).handle
            /\ (ev'.op \in ScopeFns /\ ev'.kind = "Call")
               => /\ Last(calls'[t]).parent = Last(ui_stack)
                  /\ Last(calls'[t]).parent = Top(t).handle]_vars

\* C18: when every call comes from the session thread, no pop finds the stack
\* empty: the frame driver never panics with UI_STACK_ERR, no scope function
\* returns UI_STACK_ERR after its body, and the stack is never shallower than
\* the number of open frame and scope calls, each of which still has its pop
\* to do.
C18_NoPopOnEmpty ==
    /\ ~(ev.op \in {"run_native_exit", "scope_return"} /\ ev.msg = UI_STACK_ERR)
    /\ Len(ui_stack) >= OpenCalls("T1")

\* A frame that opened a scope has done its last pop.
C18_Witness ==
    /\ ev.op = "update_return" /\ ev.kind = "Ok" /\ ev.t = "T1"
    /\ ui_stack = <<>> /\ nextHandle >= 3 /\ UI = 1

HandlesOf(t) == {calls[t][i].handle : i \in 1..Len(calls[t])}

\* C19: while a session is active, a call made by a thread that does not run
\* it leaves the scope stack as it is, and no scope call pops a handle that
\* a call of another thread pushed.
C19_OneThreadMutates ==
    [][\A t \in Threads :
         (ev'.t = t /\ ev' # ev)
         => /\ (SessionActive /\ t \notin SessionThreads) => ui_stack' = ui_stack
            /\ (ev'.op = "scope_return" /\ ev'.kind = "Ok")
               => \A u \in Threads \ {t} : ev'.h \notin HandlesOf(u)]_vars

\* C20: whenever a thread is in a frame (the root region is pushed and the
\* frame callback has been called), the frame was entered from the native loop
\* of a run_native call of that same thread, that call is the only one running
\* a session, and the guard it took is held and not poisoned.
C20_FrameUnderGuard ==
    \A t \in Threads : \A i \in 1..Len(calls[t]) :
        calls[t][i].kind = "update"
        => /\ i > 1 /\ calls[t][i - 1].kind = "run_native"
           /\ SessionThreads = {t}
           /\ APP_MUTEX = [locked |-> TRUE, poisoned |-> FALSE]

\* The frame callback of a session has just been called.
C20_Witness ==
    /\ ev.op = "update" /\ ev.kind = "Call" /\ InFrame(ev.t)
    /\ Last(ui_stack) = Top(ev.t).handle
    /\ APP_MUTEX.locked

\* C21: UPDATE_FUNC is written by the run_native call that starts a session and
\* by nothing else while the session lasts, and every frame tick of the session
\* reads a valid callback from it and calls it: the tick neither faults nor
\* panics on the slot.
C21_CallbackSlotValid ==
    /\ [][(SessionActive /\ SessionActive') => UPDATE_FUNC' = UPDATE_FUNC]_vars
    /\ [][\A t \in Threads :
            (InNativeLoop(t) /\ ev'.op \in {"update", "run_native_exit"} /\ ev'.t = t
             /\ ev' # ev /\ ev'.kind # "Ok")
            => /\ ev'.op = "update" /\ ev'.kind = "Call"
               /\ ev'.msg = UPDATE_FUNC /\ UPDATE_FUNC \in Callbacks
               /\ Len(calls'[t]) = Len(calls[t]) + 1]_vars

ScopeHandles(t) == {calls[t][i].handle : i \in {j \in 1..Len(calls[t]) : calls[t][j].kind = "scope"}}

\* C22: if every host callback returns, then, unless the process faults, every
\* scope call that pushed a region comes to pop that region and return, and
\* every frame comes back to the native loop with the scope stack empty.
C22_EveryScopePopsEveryFrameReturns ==
    /\ \A h \in 1..MaxHandles :
          (h \in ScopeHandles("T1"))
          ~> (crashed \/ (/\ ev.op = "scope_return" /\ ev.kind = "Ok" /\ ev.h = h
                          /\ h \notin ScopeHandles("T1") /\ h \notin Range(ui_stack)))
    /\ InFrame("T1") ~> (crashed \/ (InNativeLoop("T1") /\ ui_stack = <<>>))

====
